---- MODULE Spec2Model ----
(***************************************************************************)
(* Model of trajectory_planning_helpers: calc_ax_profile and               *)
(* spline_approximation.                                                   *)
(*                                                                         *)
(* Floating point numbers are modelled as exact rationals <<n, d>> in      *)
(* lowest terms with d > 0; the IEEE results of a division by zero are     *)
(* <<1, 0>> (inf), <<-1, 0>> (-inf) and <<0, 0>> (nan).  Rounding is not   *)
(* modelled.  numpy arrays are sequences, so index i of the source is      *)
(* index i + 1 here.                                                       *)
(*                                                                         *)
(* The spline library (splprep, splev) and the minimizer (fmin) are        *)
(* external: the fitted spline is opaque, the values splev returns for the *)
(* smoothed path are kept symbolic, and the measured spline length, the    *)
(* minimizer's result and the closest spline point of each track point are *)
(* chosen from small sets.  The arguments s_reg (handed to splprep only)   *)
(* and debug (a print only) are left out; k_reg has its default.           *)
(***************************************************************************)
EXTENDS Integers, Sequences, FiniteSets, TLC

VARIABLES
    \* calc_ax_profile: arguments, result and position
    vx_profile, el_lengths, eq_length_output, ax_profile, ax_pc,
    \* spline_approximation: arguments
    track, stepsize_prep, stepsize_reg,
    \* spline_approximation: locals, in the order the code assigns them
    track_cl, el_lengths_cl, dists_cum_cl, no_points_interp_cl,
    dists_interp_cl, track_interp_cl, tck_cl, len_path_smoothed_tmp,
    no_points_reg_cl, path_smoothed, t_glob_guess_cl, closest_t_glob_cl,
    closest_point_cl, dists_cl, sides_cl, w_tr_right_new_cl,
    w_tr_left_new_cl, track_reg,
    \* spline_approximation: position in the function and loop index
    pc, i_loop

axVars == <<vx_profile, el_lengths, eq_length_output, ax_profile, ax_pc>>

argVars == <<track, stepsize_prep, stepsize_reg>>

prepVars == <<track_cl, el_lengths_cl, dists_cum_cl, no_points_interp_cl,
              dists_interp_cl, track_interp_cl>>

smoothVars == <<len_path_smoothed_tmp, no_points_reg_cl, path_smoothed>>

projVars == <<t_glob_guess_cl, closest_t_glob_cl, closest_point_cl, dists_cl>>

widthVars == <<sides_cl, w_tr_right_new_cl, w_tr_left_new_cl, track_reg>>

splineVars == <<argVars, prepVars, tck_cl, smoothVars, projVars, widthVars,
                pc, i_loop>>

vars == <<axVars, splineVars>>

\* A local that has not been assigned yet.
None == <<>>

(***************************************************************************)
(* Rational arithmetic.                                                    *)
(***************************************************************************)
Abs(n) == IF n < 0 THEN -n ELSE n

RECURSIVE Gcd(_, _)
Gcd(a, b) == IF b = 0 THEN a ELSE Gcd(b, a % b)

\* n / d in lowest terms; d = 0 gives inf, -inf or nan.
Norm(n, d) ==
    IF d = 0 THEN <<(IF n > 0 THEN 1 ELSE IF n < 0 THEN -1 ELSE 0), 0>>
    ELSE LET g == Gcd(Abs(n), Abs(d))
             s == IF d < 0 THEN -1 ELSE 1
         IN  <<(s * n) \div g, (s * d) \div g>>

R(n) == <<n, 1>>

IsFinite(a) == a[2] # 0

RAdd(a, b) == Norm(a[1] * b[2] + b[1] * a[2], a[2] * b[2])

RSub(a, b) == Norm(a[1] * b[2] - b[1] * a[2], a[2] * b[2])

RMul(a, b) == Norm(a[1] * b[1], a[2] * b[2])

RDiv(a, b) == Norm(a[1] * b[2], a[2] * b[1])

RLt(a, b) == a[1] * b[2] < b[1] * a[2]

RLe(a, b) == a[1] * b[2] <= b[1] * a[2]

Sq(a) == RMul(a, a)

\* int(np.ceil(a)) of a finite a
RCeil(a) == -((-a[1]) \div a[2])

(***************************************************************************)
(* calc_ax_profile                                                         *)
(***************************************************************************)
\* Largest el_lengths size tried.
MaxAxLen == 2

VxVals == {R(0), R(10), Norm(-3, 2)}

ElVals == {R(5), Norm(1, 2)}

SeqsUpTo(S, lo, hi) == UNION {[1..n -> S] : n \in lo..hi}

\* variant: the check without the + 1
SizeMismatchSame(vx, el) == Len(vx) # Len(el)

\* the input check: vx_profile.size != el_lengths.size + 1
SizeMismatch(vx, el) == Len(vx) # Len(el) + 1

\* variant: the squares subtracted the other way round
AxFormulaSwapped(vx, el) ==
    [j \in 1..Len(vx) - 1 |->
        RDiv(RSub(RMul(vx[j], vx[j]), RMul(vx[j + 1], vx[j + 1])),
             RMul(R(2), el[j]))]

\* (np.power(vx[1:], 2) - np.power(vx[:-1], 2)) / (2 * el_lengths)
AxFormula(vx, el) ==
    [j \in 1..Len(vx) - 1 |->
        RDiv(RSub(RMul(vx[j + 1], vx[j + 1]), RMul(vx[j], vx[j])),
             RMul(R(2), el[j]))]

\* variant: the zero in front instead of at the end
AxEqLengthPadFront(vx, el) == <<R(0)>> \o AxFormula(vx, el)

\* np.zeros(vx.size) with [:-1] overwritten by the formula
AxEqLength(vx, el) == AxFormula(vx, el) \o <<R(0)>>

AxIdle ==
    /\ vx_profile = None /\ el_lengths = None
    /\ eq_length_output = FALSE /\ ax_profile = None /\ ax_pc = "idle"

AxInit ==
    /\ vx_profile \in SeqsUpTo(VxVals, 1, MaxAxLen + 1)
    /\ el_lengths \in SeqsUpTo(ElVals, 0, MaxAxLen)
    /\ eq_length_output \in BOOLEAN
    /\ ax_profile = None
    /\ ax_pc = "check"

\* lines 22-24: the input check
AxCheck ==
    /\ ax_pc = "check"
    /\ \/ /\ SizeMismatch(vx_profile, el_lengths)
          /\ ax_pc' = "raised"
       \/ /\ ~SizeMismatch(vx_profile, el_lengths)
          /\ ax_pc' = "compute"
    /\ UNCHANGED <<vx_profile, el_lengths, eq_length_output, ax_profile>>
    /\ UNCHANGED splineVars

\* lines 26-33: the profile and the return
AxCompute ==
    /\ ax_pc = "compute"
    /\ \/ /\ eq_length_output
          /\ ax_profile' = AxEqLength(vx_profile, el_lengths)
       \/ /\ ~eq_length_output
          /\ ax_profile' = AxFormula(vx_profile, el_lengths)
    /\ ax_pc' = "returned"
    /\ UNCHANGED <<vx_profile, el_lengths, eq_length_output>>
    /\ UNCHANGED splineVars

SplineIdle ==
    /\ track = None /\ stepsize_prep = None /\ stepsize_reg = None
    /\ track_cl = None /\ el_lengths_cl = None /\ dists_cum_cl = None
    /\ no_points_interp_cl = 0 /\ dists_interp_cl = None
    /\ track_interp_cl = None /\ tck_cl = None
    /\ len_path_smoothed_tmp = None /\ no_points_reg_cl = 0
    /\ path_smoothed = None /\ t_glob_guess_cl = None
    /\ closest_t_glob_cl = None /\ closest_point_cl = None
    /\ dists_cl = None /\ sides_cl = None /\ w_tr_right_new_cl = None
    /\ w_tr_left_new_cl = None /\ track_reg = None
    /\ pc = "idle" /\ i_loop = 0

InitAx == AxInit /\ SplineIdle

NextAx == AxCheck \/ AxCompute

SpecAx == InitAx /\ [][NextAx]_vars

(***************************************************************************)
(* numpy helpers used by spline_approximation.                             *)
(***************************************************************************)
\* np.sqrt of a number whose root is rational
ISqrt(n) == CHOOSE r \in 0..n : r * r = n

IsSquare(n) == \E r \in 0..n : r * r = n

RSqrt(a) == <<ISqrt(a[1]), ISqrt(a[2])>>

RECURSIVE SumTo(_, _)
SumTo(s, n) == IF n = 0 THEN R(0) ELSE RAdd(SumTo(s, n - 1), s[n])

\* np.linspace(start, stop, num)
Linspace(start, stop, num) ==
    [j \in 1..num |->
        IF num = 1 THEN start
        ELSE IF j = num THEN stop
        ELSE RAdd(start, RMul(R(j - 1), RDiv(RSub(stop, start), R(num - 1))))]

\* np.interp's index search: one before the first position after the start
\* whose entry exceeds x.  On a non-decreasing xp this is the last entry that
\* is <= x; numpy does not check that xp increases and leaves the result for
\* other xp unspecified (this is its linear search, used for short xp).
SearchIdx(x, xp) ==
    LET n == Len(xp)
        above == {p \in 2..n : RLt(x, xp[p])
                     /\ \A q \in 2..(p - 1) : ~RLt(x, xp[q])}
    IN  IF above = {} THEN n ELSE (CHOOSE p \in above : TRUE) - 1

\* np.interp(x, xp, fp) for one x
Interp1(x, xp, fp) ==
    LET n == Len(xp)
    IN  IF RLt(xp[n], x) THEN fp[n]
        ELSE IF RLt(x, xp[1]) THEN fp[1]
        ELSE LET j == SearchIdx(x, xp)
             IN  IF j = n THEN fp[n]
                 ELSE IF xp[j] = x THEN fp[j]
                 ELSE RAdd(fp[j],
                           RMul(RDiv(RSub(fp[j + 1], fp[j]),
                                     RSub(xp[j + 1], xp[j])),
                                RSub(x, xp[j])))

Interp(xs, xp, fp) == [j \in 1..Len(xs) |-> Interp1(xs[j], xp, fp)]

Column(rows, c) == [j \in 1..Len(rows) |-> rows[j][c]]

(***************************************************************************)
(* spline_approximation: the linear interpolation before smoothing.        *)
(***************************************************************************)
\* order of the B splines (default argument)
k_reg == 3

\* variant: the track left open
CloseTrackOpen(tr) == tr

\* np.vstack((track, track[0]))
CloseTrack(tr) == Append(tr, tr[1])

SqDist(p, q) == RAdd(Sq(RSub(q[1], p[1])), Sq(RSub(q[2], p[2])))

\* np.sqrt(np.sum(np.power(np.diff(track_cl[:, :2], axis=0), 2), axis=1))
ElLengths(tcl) ==
    [j \in 1..Len(tcl) - 1 |-> RSqrt(SqDist(tcl[j], tcl[j + 1]))]

\* np.insert(np.cumsum(el_lengths_cl), 0, 0.0)
DistsCum(el) == [j \in 1..Len(el) + 1 |-> SumTo(el, j - 1)]

Last(s) == s[Len(s)]

\* variant: floor instead of ceil
NoPointsInterpFloor(cum, step) == (RDiv(Last(cum), step)[1] \div RDiv(Last(cum), step)[2]) + 1

\* int(np.ceil(dists_cum_cl[-1] / stepsize_prep)) + 1
NoPointsInterp(cum, step) == RCeil(RDiv(Last(cum), step)) + 1

\* the four np.interp calls filling track_interp_cl
TrackInterp(dists, cum, tcl) ==
    [j \in 1..Len(dists) |->
        <<Interp1(dists[j], cum, Column(tcl, 1)),
          Interp1(dists[j], cum, Column(tcl, 2)),
          Interp1(dists[j], cum, Column(tcl, 3)),
          Interp1(dists[j], cum, Column(tcl, 4))>>]

(***************************************************************************)
(* spline_approximation: inputs.                                           *)
(***************************************************************************)
\* Largest number of points of an input track.
MaxPts == 4

Row(x, y, wr, wl) == <<R(x), R(y), R(wr), R(wl)>>

\* Tracks [x, y, w_tr_right, w_tr_left] whose prefixes of 2..MaxPts points are
\* the inputs tried: a straight segment, a rectangle whose last corner is
\* repeated, a clockwise triangle, and two triangles with a repeated corner.
BaseTracks ==
    { <<Row(0, 0, 1, 2), Row(10, 0, 2, 2)>>,
      <<Row(0, 0, 2, 2), Row(3, 0, 2, 3), Row(3, 4, 1, 3), Row(0, 4, 2, 2),
        Row(0, 4, 2, 2)>>,
      <<Row(0, 0, 2, 2), Row(0, 4, 3, 2), Row(3, 4, 2, 1)>>,
      <<Row(0, 0, 2, 2), Row(0, 0, 2, 2), Row(3, 4, 3, 2), Row(3, 0, 2, 2)>>,
      <<Row(0, 0, 2, 3), Row(4, 0, 2, 2), Row(4, 0, 2, 2), Row(4, 3, 3, 3)>> }

\* every segment of the closed track has a rational length
ExactLengths(tr) ==
    LET tcl == CloseTrack(tr)
    IN  \A j \in 1..Len(tcl) - 1 :
            LET d == SqDist(tcl[j], tcl[j + 1])
            IN  IsSquare(d[1]) /\ IsSquare(d[2])

Min(a, b) == IF a < b THEN a ELSE b

Prefixes(b) == { SubSeq(b, 1, n) : n \in 2..Min(MaxPts, Len(b)) }

Tracks == { tr \in UNION { Prefixes(b) : b \in BaseTracks } : ExactLengths(tr) }

PrepSteps == {R(2), R(3)}

RegSteps == {R(2), R(3)}

\* The measured length of the fitted spline, as a fraction of the perimeter
\* of the input polyline (the spline itself is the library's).
LenFactors == {R(1), Norm(3, 4)}

\* What the minimizer and the spline evaluation may yield for one point: the
\* minimizer's result minus its start guess, and the evaluated spline point
\* minus the track point.
FminOutcomes ==
    { <<R(0), <<3, 4>>>>, <<Norm(-1, 4), <<0, 0>>>>, <<Norm(1, 4), <<0, -3>>>> }

(***************************************************************************)
(* spline_approximation: the steps of the function.                        *)
(***************************************************************************)
Zeros(n) == [j \in 1..n |-> R(0)]

SplInit ==
    /\ track \in Tracks
    /\ stepsize_prep \in PrepSteps
    /\ stepsize_reg \in RegSteps
    /\ track_cl = None /\ el_lengths_cl = None /\ dists_cum_cl = None
    /\ no_points_interp_cl = 0 /\ dists_interp_cl = None
    /\ track_interp_cl = None /\ tck_cl = None
    /\ len_path_smoothed_tmp = None /\ no_points_reg_cl = 0
    /\ path_smoothed = None /\ t_glob_guess_cl = None
    /\ closest_t_glob_cl = None /\ closest_point_cl = None
    /\ dists_cl = None /\ sides_cl = None /\ w_tr_right_new_cl = None
    /\ w_tr_left_new_cl = None /\ track_reg = None
    /\ pc = "interp" /\ i_loop = 0

\* lines 39-59: close the track and resample it at stepsize_prep
LinearInterpolation ==
    /\ pc = "interp"
    /\ LET tcl  == CloseTrack(track)
           el   == ElLengths(tcl)
           cum  == DistsCum(el)
           num  == NoPointsInterp(cum, stepsize_prep)
           dsts == Linspace(R(0), Last(cum), num)
       IN  /\ track_cl' = tcl
           /\ el_lengths_cl' = el
           /\ dists_cum_cl' = cum
           /\ no_points_interp_cl' = num
           /\ dists_interp_cl' = dsts
           /\ track_interp_cl' = TrackInterp(dsts, cum, tcl)
    /\ pc' = "splprep"
    /\ UNCHANGED <<argVars, tck_cl, smoothVars, projVars, widthVars, i_loop>>
    /\ UNCHANGED axVars

\* the library rejects a fit of m points with m <= k, and one in which two
\* successive points coincide (its parameter values must increase strictly)
SplprepRejects(xs, ys) ==
    \/ Len(xs) <= k_reg
    \/ \E j \in 1..Len(xs) - 1 : xs[j] = xs[j + 1] /\ ys[j] = ys[j + 1]

\* lines 67-70: interpolate.splprep on the resampled x and y channels
SplineFit ==
    /\ pc = "splprep"
    /\ \/ /\ SplprepRejects(Column(track_interp_cl, 1), Column(track_interp_cl, 2))
          /\ pc' = "raised"
          /\ tck_cl' = tck_cl
       \/ /\ ~SplprepRejects(Column(track_interp_cl, 1), Column(track_interp_cl, 2))
          /\ pc' = "smooth"
          /\ tck_cl' = [k |-> k_reg, per |-> 1,
                        x |-> Column(track_interp_cl, 1),
                        y |-> Column(track_interp_cl, 2)]
    /\ UNCHANGED <<argVars, prepVars, smoothVars, projVars, widthVars, i_loop>>
    /\ UNCHANGED axVars

\* int(np.ceil(len_path_smoothed_tmp / stepsize_reg)) + 1
NoPointsReg(len, step) == RCeil(RDiv(len, step)) + 1

\* the value interpolate.splev returns for parameter u, left symbolic
Splev(u) == <<"splev", u>>

DropLast(s) == SubSeq(s, 1, Len(s) - 1)

\* variant: the sample at parameter 1 kept
PathSmoothedKeepLast(num) ==
    LET us == Linspace(R(0), R(1), num)
    IN  [j \in 1..num |-> Splev(us[j])]

\* splev(np.linspace(0.0, 1.0, no_points_reg_cl), tck_cl)).T[:-1]
PathSmoothed(num) ==
    LET us == Linspace(R(0), R(1), num)
    IN  DropLast([j \in 1..num |-> Splev(us[j])])

\* variant: each cumulative distance divided by the length of the segment
\* that ends at the point
TGlobGuessBySegment(cum, el) ==
    [j \in 1..Len(cum) |-> RDiv(cum[j], IF j = 1 THEN el[1] ELSE el[j - 1])]

\* dists_cum_cl / dists_cum_cl[-1]
TGlobGuess(cum, el) == [j \in 1..Len(cum) |-> RDiv(cum[j], Last(cum))]

\* lines 72-89: measure the spline, sample the smoothed path, set up the
\* arrays of the projection and its start guesses
SmoothPath ==
    /\ pc = "smooth"
    /\ \E f \in LenFactors :
          LET len == RMul(f, Last(dists_cum_cl))
          IN  /\ len_path_smoothed_tmp' = len
              /\ no_points_reg_cl' = NoPointsReg(len, stepsize_reg)
              /\ path_smoothed' = PathSmoothed(NoPointsReg(len, stepsize_reg))
    /\ dists_cl' = Zeros(Len(track_cl))
    /\ closest_point_cl' = [j \in 1..Len(track_cl) |-> <<R(0), R(0)>>]
    /\ closest_t_glob_cl' = Zeros(Len(track_cl))
    /\ t_glob_guess_cl' = TGlobGuess(dists_cum_cl, el_lengths_cl)
    /\ pc' = "project"
    /\ i_loop' = 0
    /\ UNCHANGED <<argVars, prepVars, tck_cl, widthVars>>
    /\ UNCHANGED axVars

\* x0 of optimize.fmin for the point at position idx
FminStart(idx) == t_glob_guess_cl[idx]

\* what is stored in closest_t_glob_cl for a minimizer result t
RecordT(t) == t

\* lines 91-103: one pass of the projection loop
ProjectPoint ==
    /\ pc = "project"
    /\ i_loop < Len(track_cl)
    /\ \E o \in FminOutcomes :
          LET idx == i_loop + 1
              t   == RAdd(FminStart(idx), o[1])
              z   == <<RAdd(track_cl[idx][1], R(o[2][1])),
                       RAdd(track_cl[idx][2], R(o[2][2]))>>
          IN  /\ closest_t_glob_cl' = [closest_t_glob_cl EXCEPT ![idx] = RecordT(t)]
              /\ closest_point_cl' = [closest_point_cl EXCEPT ![idx] = z]
              /\ dists_cl' = [dists_cl EXCEPT
                                 ![idx] = RSqrt(SqDist(z, track_cl[idx]))]
    /\ i_loop' = i_loop + 1
    /\ pc' = pc
    /\ UNCHANGED <<argVars, prepVars, tck_cl, smoothVars, t_glob_guess_cl,
                   widthVars>>
    /\ UNCHANGED axVars

Sign(n) == IF n > 0 THEN 1 ELSE IF n < 0 THEN -1 ELSE 0

\* side_of_line(a, b, z): +1 if z is right of the line from a to b, -1 if it
\* is left of it, 0 if it is on it
SideOfLine(a, b, z) ==
    LET cross == RSub(RMul(RSub(b[1], a[1]), RSub(z[2], a[2])),
                      RMul(RSub(b[2], a[2]), RSub(z[1], a[1])))
    IN  -Sign(cross[1])

\* lines 110-115: one sign per segment of the closed track
Sides(tcl, closest) ==
    [j \in 1..Len(tcl) - 1 |-> SideOfLine(tcl[j], tcl[j + 1], closest[j])]

\* variant: the last segment's sign for the closing point
SidesClLast(sides) == Append(sides, Last(sides))

\* np.hstack((sides, sides[0]))
SidesCl(sides) == Append(sides, sides[1])

\* variant: the shift subtracted on the right as well
WTrRightNewSub(tcl, scl, dists) ==
    [j \in 1..Len(tcl) |-> RSub(tcl[j][3], RMul(R(scl[j]), dists[j]))]

\* track_cl[:, 2] + sides_cl * dists_cl
WTrRightNew(tcl, scl, dists) ==
    [j \in 1..Len(tcl) |-> RAdd(tcl[j][3], RMul(R(scl[j]), dists[j]))]

\* track_cl[:, 3] - sides_cl * dists_cl
WTrLeftNew(tcl, scl, dists) ==
    [j \in 1..Len(tcl) |-> RSub(tcl[j][4], RMul(R(scl[j]), dists[j]))]

\* np.interp(np.linspace(0.0, 1.0, no_points_reg_cl), closest_t_glob_cl, w)[:-1]
WidthsSmoothed(num, ts, w) == DropLast(Interp(Linspace(R(0), R(1), num), ts, w))

\* lines 109-129: the signs, the new widths, their interpolation and the
\* returned track (np.column_stack raises on columns of different lengths)
ProcessWidths ==
    /\ pc = "project"
    /\ i_loop = Len(track_cl)
    /\ LET scl == SidesCl(Sides(track_cl, closest_point_cl))
           wr  == WTrRightNew(track_cl, scl, dists_cl)
           wl  == WTrLeftNew(track_cl, scl, dists_cl)
           wrs == WidthsSmoothed(no_points_reg_cl, closest_t_glob_cl, wr)
           wls == WidthsSmoothed(no_points_reg_cl, closest_t_glob_cl, wl)
           ok  == Len(wrs) = Len(path_smoothed) /\ Len(wls) = Len(path_smoothed)
       IN  /\ sides_cl' = scl
           /\ w_tr_right_new_cl' = wr
           /\ w_tr_left_new_cl' = wl
           /\ track_reg' = IF ok
                           THEN [xy |-> path_smoothed, w_tr_right |-> wrs,
                                 w_tr_left |-> wls]
                           ELSE None
           /\ pc' = IF ok THEN "done" ELSE "raised"
    /\ UNCHANGED <<argVars, prepVars, tck_cl, smoothVars, projVars, i_loop>>
    /\ UNCHANGED axVars

Init == SplInit /\ AxIdle

Next ==
    \/ LinearInterpolation
    \/ SplineFit
    \/ SmoothPath
    \/ ProjectPoint
    \/ ProcessWidths

Spec == Init /\ [][Next]_vars

(***************************************************************************)
(* Properties of calc_ax_profile (checked under SpecAx).                   *)
(***************************************************************************)
AxSizesFit == Len(vx_profile) = Len(el_lengths) + 1

ConstantVelocity == \A j \in 1..Len(vx_profile) : vx_profile[j] = vx_profile[1]

\* C1: without eq_length_output the returned profile has one entry per element
\* length, entry j times 2 * el_lengths[j] is vx[j+1]^2 - vx[j]^2, and a
\* constant velocity profile gives accelerations that are all exactly 0.
C1_AxFormula ==
    (ax_pc = "returned" /\ ~eq_length_output) =>
        /\ Len(ax_profile) = Len(el_lengths)
        /\ \A j \in 1..Len(el_lengths) :
              /\ IsFinite(ax_profile[j])
              /\ RMul(ax_profile[j], RMul(R(2), el_lengths[j]))
                    = RSub(Sq(vx_profile[j + 1]), Sq(vx_profile[j]))
        /\ ConstantVelocity => \A j \in 1..Len(ax_profile) : ax_profile[j] = R(0)

\* C1 witness: V = [0, 10], L = [5] returns [10].
C1_Witness ==
    /\ ax_pc = "returned" /\ ~eq_length_output
    /\ vx_profile = <<R(0), R(10)>> /\ el_lengths = <<R(5)>>
    /\ ax_profile = <<R(10)>>

\* C2: whenever len(V) # len(L) + 1 the call ends in the error, for either
\* value of eq_length_output, and never reaches the computation: no profile,
\* not even a partial one, is ever assigned.
C2_MismatchRaises ==
    ~AxSizesFit =>
        /\ ax_pc \in {"check", "raised"}
        /\ ax_profile = None

\* C2 witness: a mismatched call with the flag set has raised.
C2_Witness ==
    /\ ax_pc = "raised" /\ eq_length_output
    /\ Len(vx_profile) = Len(el_lengths) /\ Len(el_lengths) = 2
    /\ ax_profile = None

\* C3: with eq_length_output the result has len(V) entries, the last one 0 and
\* the others those of the result without the flag; without the flag it has
\* len(V) - 1 entries.
C3_EqLengthPads ==
    ax_pc = "returned" =>
        IF eq_length_output
        THEN /\ Len(ax_profile) = Len(vx_profile)
             /\ ax_profile[Len(ax_profile)] = R(0)
             /\ SubSeq(ax_profile, 1, Len(ax_profile) - 1)
                   = AxFormula(vx_profile, el_lengths)
        ELSE Len(ax_profile) = Len(vx_profile) - 1

\* C3 witness: V = [0, 10], L = [5] with the flag returns [10, 0].
C3_Witness ==
    /\ ax_pc = "returned" /\ eq_length_output
    /\ vx_profile = <<R(0), R(10)>> /\ el_lengths = <<R(5)>>
    /\ ax_profile = <<R(10), R(0)>>

(***************************************************************************)
(* Properties of spline_approximation (checked under Spec).                *)
(***************************************************************************)
\* the perimeter of the closed input track
Perimeter == SumTo(ElLengths(CloseTrack(track)), Len(track))

\* c = ceil(a / s), for s > 0
IsCeil(c, a, s) == RLe(a, RMul(R(c), s)) /\ RLt(RMul(R(c - 1), s), a)

Resampled == pc # "interp"

\* row is the linear interpolation of the closed track at cumulative distance d
OnPolylineAt(row, d) ==
    \E j \in 1..Len(track_cl) - 1 :
        /\ RLe(dists_cum_cl[j], d) /\ RLe(d, dists_cum_cl[j + 1])
        /\ IF el_lengths_cl[j] = R(0)
           THEN row \in {track_cl[j], track_cl[j + 1]}
           ELSE \A ch \in 1..4 :
                   RMul(RSub(row[ch], track_cl[j][ch]), el_lengths_cl[j])
                     = RMul(RSub(d, dists_cum_cl[j]),
                            RSub(track_cl[j + 1][ch], track_cl[j][ch]))

\* C4: the resampling yields ceil(P / s) + 1 points, P the perimeter of the
\* closed track; point k (from 0) is the closed track's point at cumulative
\* distance k * P / ceil(P / s): the first at 0, the last at P, equal gaps.
C4_ResampleCount ==
    Resampled =>
        LET n == Len(track_interp_cl)
            c == n - 1
        IN  /\ n = no_points_interp_cl /\ Len(dists_interp_cl) = n
            /\ Len(track_cl) = Len(track) + 1
            /\ IsCeil(c, Perimeter, stepsize_prep)
            /\ dists_interp_cl[1] = R(0) /\ dists_interp_cl[n] = Perimeter
            /\ \A k \in 0..c :
                  /\ RMul(R(c), dists_interp_cl[k + 1]) = RMul(R(k), Perimeter)
                  /\ OnPolylineAt(track_interp_cl[k + 1], dists_interp_cl[k + 1])
            /\ \A k \in 2..c :
                  RSub(dists_interp_cl[k + 1], dists_interp_cl[k])
                    = RSub(dists_interp_cl[2], dists_interp_cl[1])

\* C4 witness: the track (0,0) -> (4,0), perimeter 8, at step 3 gives
\* ceil(8/3) + 1 = 4 points at distances 0, 8/3, 16/3, 8.
C4_Witness ==
    /\ Resampled /\ Len(track) = 2 /\ stepsize_prep = R(3)
    /\ Perimeter = R(8)
    /\ dists_interp_cl = <<R(0), Norm(8, 3), Norm(16, 3), R(8)>>
    /\ Column(track_interp_cl, 1) = <<R(0), Norm(8, 3), Norm(8, 3), R(0)>>

\* a two-point track from (0,0) to (len,0), and the step divides len
StraightSegment(len) ==
    /\ Len(track) = 2
    /\ track[1][1] = R(0) /\ track[1][2] = R(0)
    /\ track[2][1] = R(len) /\ track[2][2] = R(0)
    /\ RDiv(R(len), stepsize_prep)[2] = 1

SegLens == 1..10

\* C5 as stated: resampling the straight segment of length len at a step s
\* that divides it yields len/s + 1 points at x = 0, s, 2s, ..., len.
C5_StraightOnce ==
    \A len \in SegLens :
        (Resampled /\ StraightSegment(len)) =>
            LET m == RDiv(R(len), stepsize_prep)[1]
            IN  /\ Len(track_interp_cl) = m + 1
                /\ \A k \in 0..m :
                      track_interp_cl[k + 1][1] = RMul(R(k), stepsize_prep)

\* C5 amended: the resampler closes the track first, so the straight segment
\* of length len at a step s dividing it yields 2*len/s + 1 points: x rises
\* 0, s, ..., len over the first len/s + 1 points and falls back to 0 over
\* the rest; y stays 0.
C5_StraightThereAndBack ==
    \A len \in SegLens :
        (Resampled /\ StraightSegment(len)) =>
            LET m == RDiv(R(len), stepsize_prep)[1]
            IN  /\ Len(track_interp_cl) = 2 * m + 1
                /\ \A k \in 0..(2 * m) :
                      /\ track_interp_cl[k + 1][2] = R(0)
                      /\ track_interp_cl[k + 1][1] =
                            IF k <= m THEN RMul(R(k), stepsize_prep)
                            ELSE RMul(R(2 * m - k), stepsize_prep)

\* C5 witness: (0,0) -> (10,0) at step 2 gives 11 points.
C5_Witness ==
    /\ Resampled /\ StraightSegment(10) /\ stepsize_prep = R(2)
    /\ Column(track_interp_cl, 1)
         = <<R(0), R(2), R(4), R(6), R(8), R(10), R(8), R(6), R(4), R(2), R(0)>>

Projecting == pc \in {"project", "done"}

InUnit(t) == RLe(R(0), t) /\ RLe(t, R(1))

NClosed == Len(track_cl)

\* C6: at every point of the closed track the new right width is the old one
\* plus sign * distance and the new left width the old one minus sign *
\* distance, so their sum is kept; the distance is that between the point and
\* its closest spline point, and the sign, one of -1, 0, +1, is for every
\* segment the side of its first point's closest spline point.
C6_WidthsShifted ==
    pc = "done" =>
        /\ Len(w_tr_right_new_cl) = NClosed /\ Len(w_tr_left_new_cl) = NClosed
        /\ \A j \in 1..NClosed :
              /\ sides_cl[j] \in {-1, 0, 1}
              /\ RLe(R(0), dists_cl[j])
              /\ Sq(dists_cl[j]) = SqDist(closest_point_cl[j], track_cl[j])
              /\ w_tr_right_new_cl[j]
                    = RAdd(track_cl[j][3], RMul(R(sides_cl[j]), dists_cl[j]))
              /\ w_tr_left_new_cl[j]
                    = RSub(track_cl[j][4], RMul(R(sides_cl[j]), dists_cl[j]))
              /\ RAdd(w_tr_right_new_cl[j], w_tr_left_new_cl[j])
                    = RAdd(track_cl[j][3], track_cl[j][4])
        /\ \A j \in 1..NClosed - 1 :
              sides_cl[j]
                 = SideOfLine(track_cl[j], track_cl[j + 1], closest_point_cl[j])

\* C6 witness: a returned call in which one point moved right and one left.
C6_Witness ==
    /\ pc = "done"
    /\ \E j, k \in 1..NClosed :
          /\ sides_cl[j] = 1 /\ sides_cl[k] = -1
          /\ RLt(track_cl[j][3], w_tr_right_new_cl[j])
          /\ RLt(w_tr_right_new_cl[k], track_cl[k][3])
          /\ RLt(w_tr_left_new_cl[j], track_cl[j][4])

\* C7 as stated: the minimizer is started at the point's normalized cumulative
\* distance (0 for the first point, 1 for the closing one) and the parameter
\* recorded for every projected point lies in [0, 1].
C7_RecordedTInUnit ==
    Projecting =>
        /\ t_glob_guess_cl[1] = R(0) /\ t_glob_guess_cl[NClosed] = R(1)
        /\ \A j \in 1..NClosed :
              RMul(t_glob_guess_cl[j], Perimeter) = dists_cum_cl[j]
        /\ \A j \in 1..i_loop : InUnit(closest_t_glob_cl[j])

HasConsecutiveDup ==
    \E j \in 1..Len(track) - 1 :
        track[j][1] = track[j + 1][1] /\ track[j][2] = track[j + 1][2]

AllFinite(seq) == \A j \in 1..Len(seq) : IsFinite(seq[j])

C9_OutputLength ==
    /\ pc = "raised" => tck_cl = None
    /\ pc = "done" =>
          LET c == Len(track_reg.xy)
          IN  /\ Len(track_reg.w_tr_right) = c /\ Len(track_reg.w_tr_left) = c
              /\ IsCeil(c, len_path_smoothed_tmp, stepsize_reg)
              /\ no_points_reg_cl = c + 1
              /\ \A k \in 1..c :
                    /\ track_reg.xy[k] = Splev(Norm(k - 1, c))
                    /\ track_reg.w_tr_right[k]
                          = Interp1(Norm(k - 1, c), closest_t_glob_cl,
                                    w_tr_right_new_cl)
                    /\ track_reg.w_tr_left[k]
                          = Interp1(Norm(k - 1, c), closest_t_glob_cl,
                                    w_tr_left_new_cl)

\* C9 witness: a measured length of 9 at step 2 gives ceil(4.5) = 5 entries.
C9_Witness ==
    /\ pc = "done" /\ len_path_smoothed_tmp = R(9) /\ stepsize_reg = R(2)
    /\ Len(track_reg.xy) = 5 /\ Len(track_reg.w_tr_right) = 5
    /\ Len(track_reg.w_tr_left) = 5

\* C10: there is one sign per segment, n for the n + 1 points of the closed
\* track, and the closing point gets the sign of the first segment (that of
\* point 0's closest spline point), so its new widths differ from point 0's
\* by that sign times the difference of the two projection distances.
C10_ClosingSign ==
    pc = "done" =>
        /\ NClosed = Len(track) + 1 /\ Len(sides_cl) = NClosed
        /\ sides_cl[NClosed]
              = SideOfLine(track_cl[1], track_cl[2], closest_point_cl[1])
        /\ RSub(w_tr_right_new_cl[NClosed], w_tr_right_new_cl[1])
              = RMul(R(sides_cl[1]), RSub(dists_cl[NClosed], dists_cl[1]))
        /\ RSub(w_tr_left_new_cl[1], w_tr_left_new_cl[NClosed])
              = RMul(R(sides_cl[1]), RSub(dists_cl[NClosed], dists_cl[1]))

\* C10 witness: the closing point's own closest spline point lies on another
\* side of the first segment than point 0's, and its widths differ from
\* point 0's.
C10_Witness ==
    /\ pc = "done"
    /\ SideOfLine(track_cl[1], track_cl[2], closest_point_cl[NClosed])
          # sides_cl[NClosed]
    /\ sides_cl[NClosed] # 0
    /\ w_tr_right_new_cl[NClosed] # w_tr_right_new_cl[1]

====
